---- MODULE Spec2Model ----
(***************************************************************************)
(* gpio-api (src/main.rs): a warp HTTP server over a mutex-guarded vector  *)
(* of claimed GPIO output lines.  The model covers main()'s startup        *)
(* (config, chip, line binding), warp's routing of a request through the   *)
(* five filters, and the five handler closures running under the registry  *)
(* mutex against a model of the line hardware.                             *)
(***************************************************************************)
EXTENDS Integers, Sequences, FiniteSets, TLC

\* ------------------------------------------------------------------ bounds
\* longest pins / names list of a configuration; the chip has as many lines
MaxPins == 2
\* request-handling tasks that may be in flight at once
MaxSlots == 2

\* ------------------------------------------------- constants of the program
U8Max == 255
HttpOk == 200

ContentLengthLimit == 1024 * 16

VARIABLES
    pc,         \* where main() is: "config", "chip", "bind", "serving", "exited"
    config,     \* the parsed Config: [debug, pins, names]
    handles,    \* Vec<HandlePair>: sequence of [offset, name]
    value,      \* hardware: the level each line of the chip reads back
    lastWrite,  \* per registry position, the state of the last write request whose
                \* set_value returned Ok (NoWrite when there was none)
    guard,      \* the Mutex: 0 when free, else the slot holding the MutexGuard
    slot,       \* the request-handling tasks
    console     \* what the step just taken printed to stdout

vars == <<pc, config, handles, value, lastWrite, guard, slot, console>>

Slots == 1..MaxSlots
\* line offsets of the chip
Lines == 0..(MaxPins - 1)
\* pin numbers a configuration may name: MaxPins is not a line of the chip
PinNumbers == 0..MaxPins
\* the state values (u8 in the code) requests carry and lines may hold: 0, 1,
\* and 2 for the values outside {0, 1}
Vals == {0, 1, 2}
\* no u8 state: the mark of a position no request has written
NoWrite == U8Max + 1

\* ------------------------------------------------------------------- texts
\* A text (path segment, form value, name) is a sequence of characters.
Digits == <<"0", "1", "2", "3", "4", "5", "6", "7", "8", "9">>

NumText(n) == <<Digits[n + 1]>>

SegGet == <<"g", "e", "t">>
SegSet == <<"s", "e", "t">>
SegName == <<"n", "a", "m", "e">>
SegGpio == <<"g", "p", "i", "o">>
SegOther == <<"o", "t", "h", "e", "r">>

NameA == <<"a">>
NameB == <<"b">>
NameC == <<"c">>
\* names a configuration may give
ConfigNames == {NameA, NameB}
\* names a request may carry: NameC is never configured
RequestNames == {NameA, NameB, NameC}

DigitVal(c) ==
    IF \E d \in 1..10 : Digits[d] = c
    THEN (CHOOSE d \in 1..10 : Digits[d] = c) - 1
    ELSE -1

RECURSIVE ParseDigits(_, _)
\* the digits of t read left to right onto acc; -1 when a character is no digit
ParseDigits(t, acc) ==
    IF t = <<>> THEN acc
    ELSE IF DigitVal(Head(t)) < 0 THEN -1
    ELSE ParseDigits(Tail(t), acc * 10 + DigitVal(Head(t)))

\* str::parse of an unsigned integer: an optional "+", then one or more digits;
\* -1 stands for Err.  (The model's texts are too short to overflow u32/usize.)
ParseUnsigned(s) ==
    LET t == IF s # <<>> /\ Head(s) = "+" THEN Tail(s) ELSE s
    IN  IF t = <<>> THEN -1 ELSE ParseDigits(t, 0)

\* mutant: the state is parsed as a wider integer, so values above 255 pass
ParseU8_wide(s) == ParseUnsigned(s)

\* str::parse::<u8>: as ParseUnsigned, and Err above 255
ParseU8(s) ==
    LET n == ParseUnsigned(s)
    IN  IF n > U8Max THEN -1 ELSE n

\* ---------------------------------------------------------------- requests
\* A form body is a set of <<field, text>> pairs.
NoBody == [len |-> 0, ctype |-> "none", form |-> {}]

FormBody(f) == [len |-> 32, ctype |-> "form", form |-> f]

Request(m, p, b) == [method |-> m, path |-> p, body |-> b]

NoRequest == Request("none", <<>>, NoBody)

IndexTexts ==
    {NumText(n) : n \in 0..MaxPins} \cup {<<"-", "1">>, <<"x">>, <<"+", "1">>}

StateTexts == {NumText(v) : v \in Vals}

GetRequests == {Request("GET", <<SegGet, t>>, NoBody) : t \in IndexTexts}

SetRequests ==
    {Request("POST", <<SegSet>>, FormBody({<<"pin", NumText(p)>>, <<"state", s>>})) :
        p \in 0..MaxPins, s \in StateTexts}

NameGetRequests == {Request("GET", <<SegName, SegGet, n>>, NoBody) : n \in RequestNames}

NameSetRequests ==
    {Request("POST", <<SegName, SegSet>>, FormBody({<<"name", n>>, <<"state", s>>})) :
        n \in RequestNames, s \in StateTexts}

GpioRequests == {Request("GET", <<SegGpio>>, NoBody)}

\* requests the filters turn away
MalformedRequests ==
    { Request("POST", <<SegSet>>, FormBody({<<"pin", <<"0">>>>})),
      Request("POST", <<SegSet>>, FormBody({<<"pin", <<"x">>>>, <<"state", <<"1">>>>})),
      Request("POST", <<SegSet>>, FormBody({<<"pin", <<"-", "1">>>>, <<"state", <<"1">>>>})),
      Request("POST", <<SegSet>>, FormBody({<<"pin", <<"0">>>>, <<"state", <<"2", "5", "6">>>>})),
      Request("POST", <<SegSet>>, FormBody({<<"pin", <<"0">>>>, <<"state", <<"x">>>>})),
      Request("POST", <<SegSet>>,
              [len |-> ContentLengthLimit + 1, ctype |-> "form",
               form |-> {<<"pin", <<"0">>>>, <<"state", <<"1">>>>}]),
      Request("POST", <<SegSet>>,
              [len |-> 32, ctype |-> "json",
               form |-> {<<"pin", <<"0">>>>, <<"state", <<"1">>>>}]),
      Request("GET", <<SegSet>>, NoBody),
      Request("POST", <<SegName, SegSet>>, FormBody({<<"state", <<"1">>>>})),
      Request("POST", <<SegName, SegSet>>,
              FormBody({<<"name", NameA>>, <<"state", <<"2", "5", "6">>>>})),
      Request("GET", <<SegName, SegSet>>, NoBody),
      Request("GET", <<SegGet>>, NoBody),
      Request("GET", <<SegOther>>, NoBody) }

AllRequests ==
    GetRequests \cup SetRequests \cup NameGetRequests \cup NameSetRequests
        \cup GpioRequests \cup MalformedRequests

\* ------------------------------------------------------------------ routing
\* What a filter makes of a request: a match with the extracted arguments, or
\* a rejection with its status.
Matched(h, idx, st, nm) ==
    [h |-> h, status |-> HttpOk, idx |-> idx, state |-> st, name |-> nm]

Rejected(status) ==
    [h |-> "reject", status |-> status, idx |-> 0, state |-> 0, name |-> <<>>]

HasField(f, k) == Cardinality({p \in f : p[1] = k}) = 1

Field(f, k) == (CHOOSE p \in f : p[1] = k)[2]

\* warp::body::content_length_limit(..).and(warp::body::form()) on a POST body
BodyStatus(b) ==
    IF b.len > ContentLengthLimit THEN 413
    ELSE IF b.ctype # "form" THEN 415
    ELSE HttpOk

\* warp::path("get").and(warp::path::param::<usize>())
get_filter(q) ==
    IF Len(q.path) >= 2 /\ q.path[1] = SegGet /\ ParseUnsigned(q.path[2]) >= 0
    THEN Matched("get", ParseUnsigned(q.path[2]), 0, <<>>)
    ELSE Rejected(404)

\* warp::post().and(warp::path("set")) ... .and(warp::body::form()) into FormData
set_filter(q) ==
    IF q.method # "POST" THEN Rejected(405)
    ELSE IF ~(Len(q.path) >= 1 /\ q.path[1] = SegSet) THEN Rejected(404)
    ELSE IF BodyStatus(q.body) # HttpOk THEN Rejected(BodyStatus(q.body))
    ELSE IF /\ HasField(q.body.form, "pin")
            /\ HasField(q.body.form, "state")
            /\ ParseUnsigned(Field(q.body.form, "pin")) >= 0
            /\ ParseU8(Field(q.body.form, "state")) >= 0
    THEN Matched("set", ParseUnsigned(Field(q.body.form, "pin")),
                 ParseU8(Field(q.body.form, "state")), <<>>)
    ELSE Rejected(400)

\* warp::path("name").and(warp::path("get")).and(warp::path::param::<String>())
name_get_filter(q) ==
    IF /\ Len(q.path) >= 3
       /\ q.path[1] = SegName
       /\ q.path[2] = SegGet
       /\ q.path[3] # <<>>
    THEN Matched("name_get", 0, 0, q.path[3])
    ELSE Rejected(404)

\* warp::post().and(warp::path("name")).and(warp::path("set")) ... into FormDataName
name_set_filter(q) ==
    IF q.method # "POST" THEN Rejected(405)
    ELSE IF ~(Len(q.path) >= 2 /\ q.path[1] = SegName /\ q.path[2] = SegSet)
    THEN Rejected(404)
    ELSE IF BodyStatus(q.body) # HttpOk THEN Rejected(BodyStatus(q.body))
    ELSE IF /\ HasField(q.body.form, "name")
            /\ HasField(q.body.form, "state")
            /\ ParseU8(Field(q.body.form, "state")) >= 0
    THEN Matched("name_set", 0, ParseU8(Field(q.body.form, "state")),
                 Field(q.body.form, "name"))
    ELSE Rejected(400)

\* warp::path("gpio")
gpio_filter(q) ==
    IF Len(q.path) >= 1 /\ q.path[1] = SegGpio
    THEN Matched("gpio", 0, 0, <<>>)
    ELSE Rejected(404)

\* the status warp answers when both sides of an or() reject: 404 counts least,
\* then 405, else the larger status
Preferred(a, b) ==
    IF b = 404 THEN a
    ELSE IF a = 404 THEN b
    ELSE IF b = 405 THEN a
    ELSE IF a = 405 THEN b
    ELSE IF a < b THEN b
    ELSE a

Or(a, b) ==
    IF a.h # "reject" THEN a
    ELSE IF b.h # "reject" THEN b
    ELSE Rejected(Preferred(a.status, b.status))

\* get.or(set).or(name_get).or(name_set).or(gpio)
routes(q) ==
    Or(Or(Or(Or(get_filter(q), set_filter(q)), name_get_filter(q)),
          name_set_filter(q)),
       gpio_filter(q))

\* ----------------------------------------------------------------- hardware
\* mutant: every level other than 0 is reported as "1"
get_handle_value_nonzero(offset, ok) ==
    IF ~ok THEN "err"
    ELSE IF value[offset] = 0 THEN "0"
    ELSE "1"

\* get_handle_value: the text for the level line `offset` reads back; ok is
\* whether handle.get_value() returned Ok
get_handle_value(offset, ok) ==
    IF ~ok THEN "err"
    ELSE IF value[offset] = 0 THEN "0"
    ELSE IF value[offset] = 1 THEN "1"
    ELSE "err"

\* the levels a line may read back after set_value(v) returned Ok: the value
\* as written, or any non-zero value taken as high
LineLevels(v) == {v, IF v = 0 THEN 0 ELSE 1}

SetMessage(offset, v) == [msg |-> "pin {} set to {}", pin |-> offset, value |-> v]

ErrorMessage(offset, v) == [msg |-> "error: {}", pin |-> offset, value |-> v]

\* mutant: the line is driven high whatever the value asked for
set_handle_value_high(offset, v, debug, ok, level) ==
    /\ value' = IF ok THEN [value EXCEPT ![offset] = 1] ELSE value
    /\ console' = IF ~debug THEN <<>>
                  ELSE IF ok THEN <<SetMessage(offset, v)>>
                  ELSE <<ErrorMessage(offset, v)>>

\* mutant: the write sets the whole port, clearing the chip's other lines
set_handle_value_port(offset, v, debug, ok, level) ==
    /\ value' = IF ok THEN [l \in Lines |-> IF l = offset THEN level ELSE 0]
                ELSE value
    /\ console' = IF ~debug THEN <<>>
                  ELSE IF ok THEN <<SetMessage(offset, v)>>
                  ELSE <<ErrorMessage(offset, v)>>

\* mutant: the write itself sits in the debug branch
set_handle_value_traced(offset, v, debug, ok, level) ==
    /\ value' = IF ok /\ debug THEN [value EXCEPT ![offset] = level] ELSE value
    /\ console' = IF ~debug THEN <<>>
                  ELSE IF ok THEN <<SetMessage(offset, v)>>
                  ELSE <<ErrorMessage(offset, v)>>

\* mutant: a line once driven high stays high
set_handle_value_sticky(offset, v, debug, ok, level) ==
    /\ value' = IF ok /\ value[offset] = 0 THEN [value EXCEPT ![offset] = level]
                ELSE value
    /\ console' = IF ~debug THEN <<>>
                  ELSE IF ok THEN <<SetMessage(offset, v)>>
                  ELSE <<ErrorMessage(offset, v)>>

\* set_handle_value: handle.set_value(value) on line `offset`; ok is whether it
\* returned Ok, level the level the line then reads back
set_handle_value(offset, v, debug, ok, level) ==
    /\ value' = IF ok THEN [value EXCEPT ![offset] = level] ELSE value
    /\ console' = IF ~debug THEN <<>>
                  ELSE IF ok THEN <<SetMessage(offset, v)>>
                  ELSE <<ErrorMessage(offset, v)>>

\* get_handle_out: whether chip.get_line(pin)?.request(OUTPUT, 0, "gpio-api")
\* succeeds: the pin is a line of the chip, this process has not requested it
\* yet, and (free) nobody else holds it
get_handle_out(pin, free) ==
    /\ pin \in Lines
    /\ \A i \in 1..Len(handles) : handles[i].offset # pin
    /\ free

\* Result of a handle call, as the handler sees it
Outcome(ok) == IF ok THEN "Ok" ELSE "Err"

\* ------------------------------------------------------------------ startup
Min(a, b) == IF a < b THEN a ELSE b

\* config.gpio.pins.iter().zip(config.gpio.names): the number of pairs
ZipLen == Min(Len(config.pins), Len(config.names))

HandlePair(offset, name) == [offset |-> offset, name |-> name]

SeqsUpTo(S, n) == UNION {[1..m -> S] : m \in 0..n}

Configs ==
    [debug : BOOLEAN, pins : SeqsUpTo(PinNumbers, MaxPins),
     names : SeqsUpTo(ConfigNames, MaxPins)]

NoResponse == [status |-> 0, text |-> "", lines |-> <<>>]

Text(s) == [status |-> HttpOk, text |-> s, lines |-> <<>>]

\* a task: its request, what the filters made of it (to), the handler's locals (k: the loop's position; value,
\* name_match, out: the variables of those names), the Results its handle calls
\* returned (io) and its reply
IdleSlot ==
    [st |-> "idle", req |-> NoRequest, to |-> Rejected(0), k |-> 0, value |-> "None",
     name_match |-> FALSE, out |-> <<>>, io |-> <<>>, resp |-> NoResponse]

InitWith(configs) ==
    /\ pc = "config"
    /\ config \in configs
    /\ handles = <<>>
    /\ value \in {[l \in Lines |-> b] : b \in {0, 1}}
    /\ lastWrite = [i \in 0..(MaxPins - 1) |-> NoWrite]
    /\ guard = 0
    /\ slot = [r \in Slots |-> IdleSlot]
    /\ console = <<>>

\* process::exit(1): the process is gone and its lines are released
Exit ==
    /\ pc' = "exited"
    /\ handles' = <<>>

\* main, lines 79-90: the arguments, the file, the TOML
LoadConfig ==
    /\ pc = "config"
    /\ \E ok \in BOOLEAN :
        IF ok THEN pc' = "chip" /\ UNCHANGED handles ELSE Exit
    /\ UNCHANGED <<config, value, lastWrite, guard, slot, console>>

\* main, lines 92-95: Chip::new
OpenChip ==
    /\ pc = "chip"
    /\ \E ok \in BOOLEAN :
        IF ok THEN pc' = "bind" /\ UNCHANGED handles ELSE Exit
    /\ UNCHANGED <<config, value, lastWrite, guard, slot, console>>

\* mutant: each new pair is put in front of the ones bound before
BindPin_front ==
    /\ pc = "bind"
    /\ Len(handles) < ZipLen
    /\ LET pin == config.pins[Len(handles) + 1]
           name == config.names[Len(handles) + 1]
       IN  \E free \in BOOLEAN :
            IF get_handle_out(pin, free)
            THEN /\ handles' = <<HandlePair(pin, name)>> \o handles
                 /\ value' = [value EXCEPT ![pin] = 0]
                 /\ pc' = pc
            ELSE /\ Exit
                 /\ value' = value
    /\ UNCHANGED <<config, lastWrite, guard, slot, console>>

\* mutant: the line is requested without a default value and keeps its level
BindPin_asis ==
    /\ pc = "bind"
    /\ Len(handles) < ZipLen
    /\ LET pin == config.pins[Len(handles) + 1]
           name == config.names[Len(handles) + 1]
       IN  \E free \in BOOLEAN :
            IF get_handle_out(pin, free)
            THEN /\ handles' = Append(handles, HandlePair(pin, name))
                 /\ value' = value
                 /\ pc' = pc
            ELSE /\ Exit
                 /\ value' = value
    /\ UNCHANGED <<config, lastWrite, guard, slot, console>>

\* main, lines 98-104: one turn of the loop over the zipped pins and names
BindPin ==
    /\ pc = "bind"
    /\ Len(handles) < ZipLen
    /\ LET pin == config.pins[Len(handles) + 1]
           name == config.names[Len(handles) + 1]
       IN  \E free \in BOOLEAN :
            IF get_handle_out(pin, free)
            THEN /\ handles' = Append(handles, HandlePair(pin, name))
                 /\ value' = [value EXCEPT ![pin] = 0]
                 /\ pc' = pc
            ELSE /\ Exit
                 /\ value' = value
    /\ UNCHANGED <<config, lastWrite, guard, slot, console>>

\* main, lines 105-198: the loop is over, warp::serve runs
Serve ==
    /\ pc = "bind"
    /\ Len(handles) = ZipLen
    /\ pc' = "serving"
    /\ UNCHANGED <<config, handles, value, lastWrite, guard, slot, console>>

\* ----------------------------------------------------------------- requests
Route(r) == slot[r].to

Handling(r, h) == slot[r].st = "locked" /\ Route(r).h = h

\* a request reaches the server: the filters match it to a handler or reject it
\* (a rejection is answered with its status; the text warp puts in is left out)
Accept(r, q) ==
    /\ pc = "serving"
    /\ slot[r].st = "idle"
    /\ slot' = [slot EXCEPT ![r] =
            IF routes(q).h = "reject"
            THEN [IdleSlot EXCEPT !.st = "done", !.req = q, !.to = routes(q),
                                  !.resp = [status |-> routes(q).status,
                                            text |-> "", lines |-> <<>>]]
            ELSE [IdleSlot EXCEPT !.st = "arrived", !.req = q, !.to = routes(q)]]
    /\ console' = <<>>
    /\ UNCHANGED <<pc, config, handles, value, lastWrite, guard>>

\* mutant: the lock is taken without waiting for its holder
Lock_barge(r) ==
    /\ slot[r].st = "arrived"
    /\ guard' = r
    /\ slot' = [slot EXCEPT ![r].st = "locked"]
    /\ console' = <<>>
    /\ UNCHANGED <<pc, config, handles, value, lastWrite>>

\* pins.lock().unwrap(): blocks until the mutex is free
Lock(r) ==
    /\ slot[r].st = "arrived"
    /\ guard = 0
    /\ guard' = r
    /\ slot' = [slot EXCEPT ![r].st = "locked"]
    /\ console' = <<>>
    /\ UNCHANGED <<pc, config, handles, value, lastWrite>>

\* Vec::get(id): whether there is a pair at position id, counted from 0
InRange(id) == id < Len(handles)

\* the write requests' history: position i last took the state v of a request
\* whose set_value returned Ok
Written(i, v, ok) ==
    lastWrite' = IF ok THEN [lastWrite EXCEPT ![i] = v] ELSE lastWrite

\* mutant: the set closure's sentinel for a position out of range
get_reply_pin(id, ok) ==
    IF InRange(id)
    THEN Text(get_handle_value(handles[id + 1].offset, ok))
    ELSE Text("invalid GPIO pin")

\* the get closure's value, lines 113-117
get_reply(id, ok) ==
    IF InRange(id)
    THEN Text(get_handle_value(handles[id + 1].offset, ok))
    ELSE Text("invalid GPIO")

\* the get closure, lines 112-118; the guard is dropped as it returns
get(r) ==
    /\ Handling(r, "get")
    /\ guard' = 0
    /\ \E ok \in BOOLEAN :
        slot' = [slot EXCEPT
            ![r].st = "done",
            ![r].io = IF InRange(Route(r).idx) THEN Append(@, Outcome(ok)) ELSE @,
            ![r].resp = get_reply(Route(r).idx, ok)]
    /\ console' = <<>>
    /\ UNCHANGED <<pc, config, handles, value, lastWrite>>

\* mutant: a position past the end wraps around to a binding, which is written
\* before the sentinel is answered
set_wrap(r) ==
    /\ Handling(r, "set")
    /\ guard' = 0
    /\ IF Len(handles) > 0
       THEN \E ok \in BOOLEAN, level \in LineLevels(Route(r).state) :
             /\ set_handle_value(handles[(Route(r).idx % Len(handles)) + 1].offset,
                                 Route(r).state, config.debug, ok, level)
             /\ Written(Route(r).idx % Len(handles), Route(r).state, ok)
             /\ slot' = [slot EXCEPT
                    ![r].st = "done",
                    ![r].io = IF InRange(Route(r).idx)
                              THEN Append(@, Outcome(ok)) ELSE @,
                    ![r].resp = IF InRange(Route(r).idx) THEN Text("OK")
                                ELSE Text("invalid GPIO pin")]
       ELSE /\ slot' = [slot EXCEPT ![r].st = "done",
                                    ![r].resp = Text("invalid GPIO pin")]
            /\ console' = <<>>
            /\ UNCHANGED <<value, lastWrite>>
    /\ UNCHANGED <<pc, config, handles>>

\* mutant: a write that failed is answered with "err"
set_surfaced(r) ==
    /\ Handling(r, "set")
    /\ guard' = 0
    /\ IF InRange(Route(r).idx)
       THEN \E ok \in BOOLEAN, level \in LineLevels(Route(r).state) :
             /\ set_handle_value(handles[Route(r).idx + 1].offset,
                                 Route(r).state, config.debug, ok, level)
             /\ Written(Route(r).idx, Route(r).state, ok)
             /\ slot' = [slot EXCEPT ![r].st = "done",
                                     ![r].io = Append(@, Outcome(ok)),
                                     ![r].resp = IF ok THEN Text("OK")
                                                 ELSE Text("err")]
       ELSE /\ slot' = [slot EXCEPT ![r].st = "done",
                                    ![r].resp = Text("invalid GPIO pin")]
            /\ console' = <<>>
            /\ UNCHANGED <<value, lastWrite>>
    /\ UNCHANGED <<pc, config, handles>>

\* the set closure, lines 126-133; the guard is dropped as it returns
set(r) ==
    /\ Handling(r, "set")
    /\ guard' = 0
    /\ IF InRange(Route(r).idx)
       THEN \E ok \in BOOLEAN, level \in LineLevels(Route(r).state) :
             /\ set_handle_value(handles[Route(r).idx + 1].offset,
                                 Route(r).state, config.debug, ok, level)
             /\ Written(Route(r).idx, Route(r).state, ok)
             /\ slot' = [slot EXCEPT ![r].st = "done",
                                     ![r].io = Append(@, Outcome(ok)),
                                     ![r].resp = Text("OK")]
       ELSE /\ slot' = [slot EXCEPT ![r].st = "done",
                                    ![r].resp = Text("invalid GPIO pin")]
            /\ console' = <<>>
            /\ UNCHANGED <<value, lastWrite>>
    /\ UNCHANGED <<pc, config, handles>>

\* mutant: the first binding of the name wins, later ones are not read
name_get_loop_first(r) ==
    /\ Handling(r, "name_get")
    /\ slot[r].k < Len(handles)
    /\ LET pin == handles[slot[r].k + 1]
       IN  IF pin.name = Route(r).name /\ slot[r].value = "None"
           THEN \E ok \in BOOLEAN :
                 slot' = [slot EXCEPT
                     ![r].k = @ + 1,
                     ![r].io = Append(@, Outcome(ok)),
                     ![r].value = get_handle_value(pin.offset, ok)]
           ELSE slot' = [slot EXCEPT ![r].k = @ + 1]
    /\ console' = <<>>
    /\ UNCHANGED <<pc, config, handles, value, lastWrite, guard>>

\* the name_get closure, lines 141-145: one turn of the loop
name_get_loop(r) ==
    /\ Handling(r, "name_get")
    /\ slot[r].k < Len(handles)
    /\ LET pin == handles[slot[r].k + 1]
       IN  IF pin.name = Route(r).name
           THEN \E ok \in BOOLEAN :
                 slot' = [slot EXCEPT
                     ![r].k = @ + 1,
                     ![r].io = Append(@, Outcome(ok)),
                     ![r].value = get_handle_value(pin.offset, ok)]
           ELSE slot' = [slot EXCEPT ![r].k = @ + 1]
    /\ console' = <<>>
    /\ UNCHANGED <<pc, config, handles, value, lastWrite, guard>>

\* the name_get closure, lines 146-150; the guard was dropped after the loop
name_get_end(r) ==
    /\ Handling(r, "name_get")
    /\ slot[r].k = Len(handles)
    /\ guard' = 0
    /\ slot' = [slot EXCEPT
           ![r].st = "done",
           ![r].resp = IF slot[r].value # "None"
                       THEN Text(slot[r].value)
                       ELSE Text("invalid GPIO name")]
    /\ console' = <<>>
    /\ UNCHANGED <<pc, config, handles, value, lastWrite>>

\* mutant: only the first binding of the name is written
name_set_loop_first(r) ==
    /\ Handling(r, "name_set")
    /\ slot[r].k < Len(handles)
    /\ LET pin == handles[slot[r].k + 1]
       IN  IF pin.name = Route(r).name /\ ~slot[r].name_match
           THEN \E ok \in BOOLEAN, level \in LineLevels(Route(r).state) :
                 /\ set_handle_value(pin.offset, Route(r).state, config.debug,
                                     ok, level)
                 /\ Written(slot[r].k, Route(r).state, ok)
                 /\ slot' = [slot EXCEPT ![r].k = @ + 1,
                                         ![r].io = Append(@, Outcome(ok)),
                                         ![r].name_match = TRUE]
           ELSE /\ slot' = [slot EXCEPT ![r].k = @ + 1]
                /\ console' = <<>>
                /\ UNCHANGED <<value, lastWrite>>
    /\ UNCHANGED <<pc, config, handles, guard>>

\* mutant: the lock is taken anew for every turn of the loop and dropped after it
name_set_loop_relock(r) ==
    /\ Handling(r, "name_set")
    /\ slot[r].k < Len(handles)
    /\ guard' = 0
    /\ LET pin == handles[slot[r].k + 1]
       IN  IF pin.name = Route(r).name
           THEN \E ok \in BOOLEAN, level \in LineLevels(Route(r).state) :
                 /\ set_handle_value(pin.offset, Route(r).state, config.debug,
                                     ok, level)
                 /\ Written(slot[r].k, Route(r).state, ok)
                 /\ slot' = [slot EXCEPT ![r].k = @ + 1,
                                         ![r].st = IF slot[r].k + 1 < Len(handles)
                                                   THEN "arrived" ELSE "locked",
                                         ![r].io = Append(@, Outcome(ok)),
                                         ![r].name_match = TRUE]
           ELSE /\ slot' = [slot EXCEPT ![r].k = @ + 1,
                                        ![r].st = IF slot[r].k + 1 < Len(handles)
                                                  THEN "arrived" ELSE "locked"]
                /\ console' = <<>>
                /\ UNCHANGED <<value, lastWrite>>
    /\ UNCHANGED <<pc, config, handles>>

\* mutant: the name is looked at for the reply only, every binding is written
name_set_loop_every(r) ==
    /\ Handling(r, "name_set")
    /\ slot[r].k < Len(handles)
    /\ LET pin == handles[slot[r].k + 1]
       IN  \E ok \in BOOLEAN, level \in LineLevels(Route(r).state) :
            /\ set_handle_value(pin.offset, Route(r).state, config.debug,
                                ok, level)
            /\ Written(slot[r].k, Route(r).state, ok)
            /\ slot' = [slot EXCEPT
                   ![r].k = @ + 1,
                   ![r].io = Append(@, Outcome(ok)),
                   ![r].name_match = @ \/ pin.name = Route(r).name]
    /\ UNCHANGED <<pc, config, handles, guard>>

\* the name_set closure, lines 162-167: one turn of the loop
name_set_loop(r) ==
    /\ Handling(r, "name_set")
    /\ slot[r].k < Len(handles)
    /\ LET pin == handles[slot[r].k + 1]
       IN  IF pin.name = Route(r).name
           THEN \E ok \in BOOLEAN, level \in LineLevels(Route(r).state) :
                 /\ set_handle_value(pin.offset, Route(r).state, config.debug,
                                     ok, level)
                 /\ Written(slot[r].k, Route(r).state, ok)
                 /\ slot' = [slot EXCEPT ![r].k = @ + 1,
                                         ![r].io = Append(@, Outcome(ok)),
                                         ![r].name_match = TRUE]
           ELSE /\ slot' = [slot EXCEPT ![r].k = @ + 1]
                /\ console' = <<>>
                /\ UNCHANGED <<value, lastWrite>>
    /\ UNCHANGED <<pc, config, handles, guard>>

\* the name_set closure, lines 168-172; the guard was dropped after the loop
name_set_end(r) ==
    /\ Handling(r, "name_set")
    /\ slot[r].k = Len(handles)
    /\ guard' = 0
    /\ slot' = [slot EXCEPT
           ![r].st = "done",
           ![r].resp = IF slot[r].name_match
                       THEN Text("OK")
                       ELSE Text("invalid GPIO name")]
    /\ console' = <<>>
    /\ UNCHANGED <<pc, config, handles, value, lastWrite>>

\* format!("pin: {} | name: {} | state: {}\n", ..): the three values of a line
GpioLine(offset, name, state) == [pin |-> offset, name |-> name, state |-> state]

\* the gpio closure, lines 179-186: one turn of the loop
gpio_loop(r) ==
    /\ Handling(r, "gpio")
    /\ slot[r].k < Len(handles)
    /\ LET pin == handles[slot[r].k + 1]
       IN  \E ok \in BOOLEAN :
            slot' = [slot EXCEPT
                ![r].k = @ + 1,
                ![r].io = Append(@, Outcome(ok)),
                ![r].out = Append(@, GpioLine(pin.offset, pin.name,
                                              get_handle_value(pin.offset, ok)))]
    /\ console' = <<>>
    /\ UNCHANGED <<pc, config, handles, value, lastWrite, guard>>

\* mutant: the guard outlives the closure (it is leaked, not dropped)
gpio_end_hold(r) ==
    /\ Handling(r, "gpio")
    /\ slot[r].k = Len(handles)
    /\ guard' = guard
    /\ slot' = [slot EXCEPT
           ![r].st = "done",
           ![r].resp = [status |-> HttpOk, text |-> "", lines |-> slot[r].out]]
    /\ console' = <<>>
    /\ UNCHANGED <<pc, config, handles, value, lastWrite>>

\* the gpio closure, line 187; the guard was dropped after the loop
gpio_end(r) ==
    /\ Handling(r, "gpio")
    /\ slot[r].k = Len(handles)
    /\ guard' = 0
    /\ slot' = [slot EXCEPT
           ![r].st = "done",
           ![r].resp = [status |-> HttpOk, text |-> "", lines |-> slot[r].out]]
    /\ console' = <<>>
    /\ UNCHANGED <<pc, config, handles, value, lastWrite>>

\* the reply is sent and the task ends
Respond(r) ==
    /\ slot[r].st = "done"
    /\ slot' = [slot EXCEPT ![r] = IdleSlot]
    /\ console' = <<>>
    /\ UNCHANGED <<pc, config, handles, value, lastWrite, guard>>

Startup == LoadConfig \/ OpenChip \/ BindPin \/ Serve

Handle(r) ==
    \/ Lock(r)
    \/ get(r)
    \/ set(r)
    \/ name_get_loop(r)
    \/ name_get_end(r)
    \/ name_set_loop(r)
    \/ name_set_end(r)
    \/ gpio_loop(r)
    \/ gpio_end(r)

\* ----------------------------------------------------------- specifications
\* a request is taken by the first task that is free
FirstIdle(r) == \A s \in 1..(r - 1) : slot[s].st # "idle"

\* Spec: any configuration, any request, one request at a time.
ArriveAlone(r) ==
    /\ \A s \in Slots : slot[s].st = "idle"
    /\ FirstIdle(r)
    /\ \E q \in AllRequests : Accept(r, q)

Init == InitWith(Configs)

Next ==
    \/ Startup
    \/ \E r \in Slots : ArriveAlone(r) \/ Handle(r) \/ Respond(r)

Spec == Init /\ [][Next]_vars

\* SpecConc: every line of the chip configured, the names all NameA or NameA
\* followed by NameB; well-formed requests on the configured pins and NameA;
\* each task takes one request, and the tasks run at once.
ConcConfigs ==
    {c \in Configs :
        /\ ~c.debug
        /\ c.pins = [k \in 1..MaxPins |-> k - 1]
        /\ c.names \in {[k \in 1..MaxPins |-> NameA],
                        [k \in 1..MaxPins |-> IF k = 1 THEN NameA ELSE NameB]}}

ConcRequests ==
    {q \in SetRequests \cup NameSetRequests :
        /\ routes(q).idx < MaxPins
        /\ routes(q).state <= 1
        /\ routes(q).name \in {<<>>, NameA}}
    \cup {Request("GET", <<SegGet, NumText(0)>>, NoBody),
          Request("GET", <<SegName, SegGet, NameA>>, NoBody)}
    \cup GpioRequests

Arrive(r) ==
    /\ FirstIdle(r)
    /\ \E q \in ConcRequests : Accept(r, q)

InitConc == InitWith(ConcConfigs)

NextConc ==
    \/ Startup
    \/ \E r \in Slots : Arrive(r) \/ Handle(r)

SpecConc == InitConc /\ [][NextConc]_vars

\* SpecLive: SpecConc on the configuration whose names are all NameA and on
\* five requests, one per handler, with fairness: the runtime runs every
\* task, so a task waiting at a mutex that stays free takes it in the end
\* (Lock), and the hardware calls return, so a handler holding the guard takes
\* its next step in the end (Run).  Requests need not arrive.
LiveConfigs == {c \in ConcConfigs : \A k \in 1..MaxPins : c.names[k] = NameA}

LiveRequests ==
    {q \in ConcRequests :
        /\ routes(q).idx = 0
        /\ routes(q).h \in {"set", "name_set"} => routes(q).state = 1}

ArriveLive(r) ==
    /\ FirstIdle(r)
    /\ \E q \in LiveRequests : Accept(r, q)

InitLive == InitWith(LiveConfigs)

NextLive ==
    \/ Startup
    \/ \E r \in Slots : ArriveLive(r) \/ Handle(r)

\* the steps of task r's handler once it holds the guard
Run(r) ==
    \/ get(r)
    \/ set(r)
    \/ name_get_loop(r)
    \/ name_get_end(r)
    \/ name_set_loop(r)
    \/ name_set_end(r)
    \/ gpio_loop(r)
    \/ gpio_end(r)

Fairness == \A r \in Slots : WF_vars(Lock(r)) /\ WF_vars(Run(r))

SpecLive == InitLive /\ [][NextLive]_vars /\ Fairness

\* ------------------------------------------------------------------- claims
Done(r, h) == slot[r].st = "done" /\ Route(r).h = h

\* the line behind position id of the registry
OffsetAt(id) == handles[id + 1].offset

\* positions (from 1) of the bindings named n
Matches(n) == {i \in 1..Len(handles) : handles[i].name = n}

\* how many bindings named n stand at or before position i
Rank(n, i) == Cardinality({j \in Matches(n) : j <= i})

Last(s) == s[Len(s)]

\* what a read of a line must say: its level as text, "err" for a failed read
\* or any other level
Reading(offset, outcome) ==
    IF outcome = "Err" THEN "err"
    ELSE IF value[offset] = 0 THEN "0"
    ELSE IF value[offset] = 1 THEN "1"
    ELSE "err"

\* C1: once a write request with state v in {0,1} has been applied to position
\* i (its set_value returned Ok) and no later write to i was, a GET /get/i whose
\* read succeeds answers "1" if v = 1 and "0" if v = 0.
C1_RoundTrip ==
    \A r \in Slots :
        (/\ Done(r, "get")
         /\ InRange(Route(r).idx)
         /\ slot[r].io = <<"Ok">>
         /\ lastWrite[Route(r).idx] \in {0, 1})
        => slot[r].resp = Text(IF lastWrite[Route(r).idx] = 1 THEN "1" ELSE "0")

C1_Witness ==
    \E r \in Slots :
        /\ Done(r, "get")
        /\ InRange(Route(r).idx)
        /\ slot[r].io = <<"Ok">>
        /\ lastWrite[Route(r).idx] = 1
        /\ slot[r].resp = Text("1")

\* C2: a finished POST /name/set {name n, state v} has called set_value once
\* for every binding named n, answers "OK" exactly when some binding is named
\* n and "invalid GPIO name" otherwise, and every binding named n whose write
\* returned Ok has taken the request's state and, for v in {0,1}, reads back v.
C2_NameSetAll ==
    \A r \in Slots :
        Done(r, "name_set") =>
            LET n == Route(r).name
                v == Route(r).state
            IN  /\ slot[r].resp = IF Matches(n) # {} THEN Text("OK")
                                  ELSE Text("invalid GPIO name")
                /\ Len(slot[r].io) = Cardinality(Matches(n))
                /\ \A i \in Matches(n) :
                     slot[r].io[Rank(n, i)] = "Ok" =>
                        /\ lastWrite[i - 1] = v
                        /\ v <= 1 => value[handles[i].offset] = v

C2_Witness ==
    \E r \in Slots :
        /\ Done(r, "name_set")
        /\ Route(r).state = 1
        /\ Cardinality(Matches(Route(r).name)) = 2
        /\ slot[r].io = <<"Ok", "Ok">>
        /\ slot[r].resp = Text("OK")
        /\ \A i \in Matches(Route(r).name) : value[handles[i].offset] = 1

\* C3: when every task has finished a POST /set, the positions are pairwise
\* distinct and every set_value returned Ok, each of those pins holds the
\* state its request wrote, whatever the interleaving was.
C3_NoLostUpdate ==
    (/\ \A r \in Slots : Done(r, "set") /\ slot[r].io = <<"Ok">>
     /\ \A r, s \in Slots : r # s => Route(r).idx # Route(s).idx)
    => \A r \in Slots :
         /\ value[OffsetAt(Route(r).idx)] = Route(r).state
         /\ get_handle_value(OffsetAt(Route(r).idx), TRUE)
                = (IF Route(r).state = 1 THEN "1" ELSE "0")

C3_Witness ==
    /\ \A r \in Slots :
         /\ Done(r, "set")
         /\ slot[r].io = <<"Ok">>
         /\ Route(r).state = 1
         /\ value[OffsetAt(Route(r).idx)] = 1
    /\ \A r, s \in Slots : r # s => Route(r).idx # Route(s).idx

\* the segment after /get of a GET /get/.. request
IndexText(r) == slot[r].req.path[2]

GetAnswered(r) == slot[r].st = "done" /\ slot[r].req \in GetRequests

SetOpRequests ==
    {q \in AllRequests :
        /\ q.method = "POST"
        /\ q.path \in {<<SegSet>>, <<SegName, SegSet>>}}

WellFormedSetOps == SetRequests \cup NameSetRequests

SetOpSentinels == {"OK", "invalid GPIO pin", "invalid GPIO name"}

C6_Original ==
    Len(config.pins) # Len(config.names) => pc # "serving"

\* C7 as stated: the GET /gpio report has one line for every entry of the
\* configured pins list, in that order, each with the pin's offset, its name
\* and its value as read.
C7_Original ==
    \A r \in Slots :
        Done(r, "gpio") =>
            /\ slot[r].resp.status = HttpOk
            /\ Len(slot[r].resp.lines) = Len(config.pins)
            /\ \A k \in 1..Len(config.pins) :
                 slot[r].resp.lines[k]
                    = GpioLine(config.pins[k], config.names[k],
                               Reading(config.pins[k], slot[r].io[k]))

\* C8 as stated: the process serves only when every configured pin has been
\* claimed, and a process that exited at startup has served nothing.
C8_Original ==
    /\ pc = "serving" =>
         \A k \in 1..Len(config.pins) :
            \E i \in 1..Len(handles) : handles[i].offset = config.pins[k]
    /\ pc = "exited" => handles = <<>> /\ \A r \in Slots : slot[r] = IdleSlot

Max(S) == CHOOSE x \in S : \A y \in S : y <= x

\* C9: a finished GET /name/get/n answers "invalid GPIO name" exactly when no
\* binding is named n, and otherwise the reading of the binding with the
\* highest position among those named n.
C9_LastMatch ==
    \A r \in Slots :
        Done(r, "name_get") =>
            LET n == Route(r).name
            IN  IF Matches(n) = {}
                THEN slot[r].resp = Text("invalid GPIO name")
                ELSE /\ slot[r].resp
                          = Text(Reading(handles[Max(Matches(n))].offset,
                                         Last(slot[r].io)))
                     /\ slot[r].resp.text # "invalid GPIO name"

C9_Witness ==
    \E r \in Slots :
        /\ Done(r, "name_get")
        /\ Cardinality(Matches(Route(r).name)) = 2
        /\ slot[r].io = <<"Ok", "Ok">>
        /\ value[handles[1].offset] = 1
        /\ value[handles[2].offset] = 0
        /\ slot[r].resp = Text("0")

\* C10: a finished GET /get/i on a valid i answers "0" when the line reads 0,
\* "1" when it reads 1 and "err" when the read failed or gave another value,
\* with status 200 and the server still serving.
C10_GetValue ==
    \A r \in Slots :
        (Done(r, "get") /\ InRange(Route(r).idx)) =>
            /\ Len(slot[r].io) = 1
            /\ slot[r].resp
                 = Text(Reading(OffsetAt(Route(r).idx), slot[r].io[1]))
            /\ slot[r].resp.text \in {"0", "1", "err"}
            /\ pc = "serving"

C10_Witness ==
    \E r \in Slots :
        /\ Done(r, "get")
        /\ InRange(Route(r).idx)
        /\ slot[r].io = <<"Ok">>
        /\ value[OffsetAt(Route(r).idx)] = 2
        /\ slot[r].resp = Text("err")

\* a write request the handler turns away: POST /set on a position past the
\* end of the registry, POST /name/set on a name no binding has
RejectedWrite(r) ==
    \/ Route(r).h = "set" /\ ~InRange(Route(r).idx)
    \/ Route(r).h = "name_set" /\ Matches(Route(r).name) = {}

\* C11: no step of a handler serving a POST /set with pin >= registry length
\* or a POST /name/set whose name matches no binding issues a hardware write
\* or changes a line, and the handler answers "invalid GPIO pin", respectively
\* "invalid GPIO name".
C11_RejectedNoOp ==
    [][\A r \in Slots :
         (slot[r].st = "locked" /\ RejectedWrite(r)) =>
            /\ value' = value
            /\ lastWrite' = lastWrite
            /\ console' = <<>>
            /\ slot'[r].io = <<>>
            /\ slot'[r].st = "done" =>
                 slot'[r].resp = IF Route(r).h = "set"
                                 THEN Text("invalid GPIO pin")
                                 ELSE Text("invalid GPIO name")]_vars

C11_Witness ==
    \E r \in Slots :
        /\ Done(r, "set")
        /\ Len(handles) > 0
        /\ ~InRange(Route(r).idx)
        /\ slot[r].resp = Text("invalid GPIO pin")
        /\ slot[r].io = <<>>
        /\ \E i \in 0..(Len(handles) - 1) :
             lastWrite[i] = 1 /\ value[OffsetAt(i)] = 1

\* a POST /set on position 0 carrying the state text t
SetState(t) ==
    Request("POST", <<SegSet>>, FormBody({<<"pin", NumText(0)>>, <<"state", t>>}))

\* C12: a POST /set on a valid index is answered "OK" with status 200 whatever
\* its state (0, 1, 2 and 255 all pass the filter unchanged) and whether
\* set_value returned Ok or Err; when it returned Err no line has changed, and
\* the failure shows only as one "error: .." message on the console when debug
\* is on, and nowhere when it is off.
C12_WriteOutcomeHidden ==
    /\ \A v \in Vals : routes(SetState(NumText(v))) = Matched("set", 0, v, <<>>)
    /\ routes(SetState(<<"2", "5", "5">>)) = Matched("set", 0, U8Max, <<>>)
    /\ [][\A r \in Slots :
            (Handling(r, "set") /\ InRange(Route(r).idx)) =>
               /\ slot'[r].resp = Text("OK")
               /\ slot'[r].io \in {<<"Ok">>, <<"Err">>}
               /\ slot'[r].io = <<"Err">> =>
                    /\ value' = value
                    /\ lastWrite' = lastWrite
                    /\ console' = IF config.debug
                                  THEN <<ErrorMessage(OffsetAt(Route(r).idx),
                                                      Route(r).state)>>
                                  ELSE <<>>]_vars

C12_Witness ==
    \E r \in Slots :
        /\ Done(r, "set")
        /\ InRange(Route(r).idx)
        /\ Route(r).state = 2
        /\ slot[r].io = <<"Err">>
        /\ slot[r].resp = Text("OK")
        /\ console = <<ErrorMessage(OffsetAt(Route(r).idx), 2)>>

\* the step from the current state to the next is a call of set_handle_value
\* by task r: a write handler holding the guard gets one more Result
Wrote(r) ==
    /\ slot[r].st = "locked"
    /\ Route(r).h \in {"set", "name_set"}
    /\ Len(slot'[r].io) = Len(slot[r].io) + 1

\* the line that call is made on
WriteOffset(r) ==
    IF Route(r).h = "set" THEN OffsetAt(Route(r).idx) ELSE OffsetAt(slot[r].k)

\* C13: the debug flag is fixed for the run, and what a step leaves in the pin
\* states and in the reply is given by the request and the Result of set_value
\* alone, the same with debug on and off: after Ok the written line holds a
\* level of the request's state and the others are as before, after Err no
\* line has changed, and the set closure's reply is "OK".  With debug on each
\* call of set_handle_value prints exactly one message, "pin N set to V" after
\* Ok and "error: .." after Err; with debug off, and in every other step,
\* nothing is printed.
C13_DebugUnobservable ==
    [][/\ config' = config
       /\ \A r \in Slots :
            Wrote(r) =>
              LET off == WriteOffset(r)
                  v == Route(r).state
                  ok == Last(slot'[r].io) = "Ok"
              IN  /\ value' = IF ok THEN [value EXCEPT ![off] = value'[off]]
                              ELSE value
                  /\ ok => value'[off] \in LineLevels(v)
                  /\ slot'[r].resp = IF Route(r).h = "set" THEN Text("OK")
                                     ELSE NoResponse
                  /\ console' = IF ~config.debug THEN <<>>
                                ELSE IF ok THEN <<SetMessage(off, v)>>
                                ELSE <<ErrorMessage(off, v)>>
       /\ (\A r \in Slots : ~Wrote(r)) => console' = <<>>
       /\ ~config.debug => console' = <<>>]_vars

C13_Witness ==
    \E r \in Slots :
        /\ Handling(r, "name_set")
        /\ config.debug
        /\ slot[r].k = 2
        /\ slot[r].io = <<"Err", "Ok">>
        /\ Route(r).state = 1
        /\ value[OffsetAt(0)] = 0
        /\ value[OffsetAt(1)] = 1
        /\ console = <<SetMessage(OffsetAt(1), 1)>>

\* C14: whenever the server is serving, the registry's entry at position k
\* (from 0) is the line of the k-th configured pin number with the k-th
\* configured name, and no step taken while serving (no request of any kind)
\* adds, removes or reorders an entry.
C14_RegistryShape ==
    [][/\ pc' = "serving" =>
            /\ Len(handles') <= Len(config'.pins)
            /\ Len(handles') <= Len(config'.names)
            /\ \A k \in 1..Len(handles') :
                 handles'[k] = HandlePair(config'.pins[k], config'.names[k])
       /\ pc = "serving" => handles' = handles /\ config' = config /\ pc' = pc]_vars

C14_Witness ==
    /\ pc = "serving"
    /\ Len(handles) = 2
    /\ handles[1] = HandlePair(1, NameB)
    /\ handles[2] = HandlePair(0, NameA)
    /\ config.pins = <<1, 0>>
    /\ config.names = <<NameB, NameA>>
    /\ \E r \in Slots : Done(r, "name_set") /\ slot[r].resp = Text("OK")

\* no write request has been applied to any position
NothingWritten == \A i \in 0..(MaxPins - 1) : lastWrite[i] = NoWrite

\* C15: as long as no write request has been applied, a GET /get/i on a valid
\* i whose read succeeds answers "0", whatever the lines of the chip held
\* before the process claimed them.
C15_InitialZero ==
    \A r \in Slots :
        (/\ Done(r, "get")
         /\ InRange(Route(r).idx)
         /\ slot[r].io = <<"Ok">>
         /\ NothingWritten)
        => /\ slot[r].resp = Text("0")
           /\ \A k \in 1..Len(handles) : value[handles[k].offset] = 0

C15_Witness ==
    \E r \in Slots :
        /\ Done(r, "get")
        /\ InRange(Route(r).idx)
        /\ slot[r].io = <<"Ok">>
        /\ NothingWritten
        /\ slot[r].resp = Text("0")
        /\ Len(handles) = 1
        /\ \E l \in Lines : value[l] = 1

\* the step from the current state to the next holds a hardware call
\* (get_value or set_value) of task r
Accessed(r) == slot'[r].io # slot[r].io

\* C16: at most one task holds the registry guard, the guard names that task,
\* every step in which a handler calls get_value or set_value starts with that
\* handler holding the guard, no step holds calls of two tasks, and once the
\* server is serving no line changes except by such a call.
C16_MutualExclusion ==
    [][/\ Cardinality({r \in Slots : slot'[r].st = "locked"}) <= 1
       /\ \A r \in Slots : slot'[r].st = "locked" <=> guard' = r
       /\ \A r \in Slots :
            Accessed(r) =>
               /\ guard = r
               /\ slot[r].st = "locked"
               /\ \A s \in Slots \ {r} : ~Accessed(s)
       /\ (pc = "serving" /\ value' # value) =>
            \E r \in Slots : guard = r /\ Accessed(r)]_vars

C16_Witness ==
    \E r, s \in Slots :
        /\ r # s
        /\ Handling(r, "name_set")
        /\ slot[r].k = 1
        /\ slot[r].io = <<"Ok">>
        /\ guard = r
        /\ slot[s].st = "arrived"
        /\ Route(s).h = "gpio"

\* Under SpecConc a task takes one request and a request goes to the first
\* free task, so the request of task a arrived before that of task b iff a < b.
ArrivedBefore(a, b) == a < b /\ slot[a].st # "idle" /\ slot[b].st # "idle"

\* task a is done with a POST /set on position i whose set_value returned Ok
SetApplied(a, i) ==
    /\ Done(a, "set")
    /\ Route(a).idx = i
    /\ InRange(i)
    /\ slot[a].io = <<"Ok">>

\* C17 as stated: when write A arrived before write B, both were applied to
\* the same pin with different values (in {0,1}) and nothing else wrote that
\* pin, the pin holds B's value.
C17_Original ==
    \A a, b \in Slots : \A i \in 0..(MaxPins - 1) :
        (/\ ArrivedBefore(a, b)
         /\ SetApplied(a, i)
         /\ SetApplied(b, i)
         /\ Route(a).state # Route(b).state
         /\ Route(a).state <= 1
         /\ Route(b).state <= 1
         /\ \A s \in Slots \ {a, b} : slot[s].io = <<>>)
        => value[OffsetAt(i)] = Route(b).state

\* C17, amended: writes are applied one at a time in the order in which their
\* handlers take the guard, which need not be the order of arrival: when a
\* write of task b is applied to a pin that a write of task a, arrived earlier
\* or later, has already set to another value, the pin takes b's value, so
\* of two writes to one pin the one whose handler took the guard last wins.
C17_GuardOrder ==
    [][\A a, b \in Slots : \A i \in 0..(MaxPins - 1) :
         (/\ a # b
          /\ SetApplied(a, i)
          /\ lastWrite[i] = Route(a).state
          /\ Handling(b, "set")
          /\ Route(b).idx = i
          /\ Route(b).state # Route(a).state
          /\ Route(b).state <= 1
          /\ slot'[b].io = <<"Ok">>)
         => /\ value'[OffsetAt(i)] = Route(b).state
            /\ lastWrite'[i] = Route(b).state
            /\ slot'[b].resp = Text("OK")]_vars

C17_Witness ==
    \E a, b \in Slots : \E i \in 0..(MaxPins - 1) :
        /\ ArrivedBefore(a, b)
        /\ SetApplied(a, i)
        /\ SetApplied(b, i)
        /\ Route(a).state = 1
        /\ Route(b).state = 0
        /\ value[OffsetAt(i)] = 1
        /\ lastWrite[i] = 1

\* the only writes so far are those of POST /name/set requests with a state
\* in {0,1}, and every set_value they called returned Ok
OnlyNameSetsOk ==
    \A s \in Slots :
        /\ Route(s).h # "set"
        /\ Route(s).h = "name_set" =>
             /\ Route(s).state <= 1
             /\ \A j \in 1..Len(slot[s].io) : slot[s].io[j] = "Ok"

\* task t has read lines for a GET /gpio report, each read returning Ok
GpioRead(t) ==
    /\ Route(t).h = "gpio"
    /\ slot[t].st \in {"locked", "done"}
    /\ \A j \in 1..Len(slot[t].io) : slot[t].io[j] = "Ok"

\* C18: (1) while a POST /name/set is between two turns of its loop, no other
\* task takes the guard or touches a line; (2) while a GET /gpio holds the
\* guard no line changes, so up to the instant it lets go every line of its
\* report is the reading of the line as it is then; (3) hence, when the only
\* writes are name-sets whose set_value calls return Ok, no GET /gpio report
\* shows two lines of one name in different states, however the tasks
\* interleave.
C18_Atomic ==
    [][/\ \A r \in Slots :
            (Handling(r, "name_set") /\ slot[r].k > 0) =>
               /\ guard = r
               /\ \A s \in Slots \ {r} :
                    slot'[s].st # "locked" /\ slot'[s].io = slot[s].io
       /\ \A t \in Slots :
            Handling(t, "gpio") =>
               /\ value' = value
               /\ \A k \in 1..Len(slot'[t].out) :
                    slot'[t].out[k]
                       = GpioLine(handles[k].offset, handles[k].name,
                                  Reading(handles[k].offset, slot'[t].io[k]))
       /\ \A t \in Slots :
            (OnlyNameSetsOk' /\ GpioRead(t)') =>
               \A j, k \in 1..Len(slot'[t].out) :
                   slot'[t].out[j].name = slot'[t].out[k].name
                      => slot'[t].out[j].state = slot'[t].out[k].state]_vars

C18_Witness ==
    \E r, t \in Slots :
        /\ Done(r, "name_set")
        /\ Route(r).state = 1
        /\ slot[r].io = <<"Ok", "Ok">>
        /\ slot[t].st = "done"
        /\ GpioRead(t)
        /\ ArrivedBefore(r, t)
        /\ Len(slot[t].out) = 2
        /\ slot[t].out[1] = GpioLine(0, NameA, "1")
        /\ slot[t].out[2] = GpioLine(1, NameA, "1")

\* the step from the current state to the next is one of task r's handler
Acted(r) == slot[r].st \in {"arrived", "locked"} /\ slot'[r] # slot[r]

\* line l keeps its level in the step
Kept(l) == value'[l] = value[l]

\* C19: no step of a GET /get, GET /name/get or GET /gpio handler changes a
\* line; a step of POST /set on a valid position i changes no line but the
\* one at i; a step of POST /name/set {name n} changes no line whose binding
\* has another name, and no line that is not in the registry.
C19_Frame ==
    [][\A r \in Slots :
         Acted(r) =>
            /\ Route(r).h \in {"get", "name_get", "gpio"} =>
                 value' = value /\ lastWrite' = lastWrite
            /\ (Route(r).h = "set" /\ InRange(Route(r).idx)) =>
                 \A l \in Lines \ {OffsetAt(Route(r).idx)} : Kept(l)
            /\ Route(r).h = "name_set" =>
                 \A l \in Lines :
                    (\A k \in Matches(Route(r).name) : handles[k].offset # l)
                        => Kept(l)]_vars

C19_Witness ==
    \E r \in Slots :
        /\ Done(r, "name_set")
        /\ Len(handles) = 2
        /\ handles[1].name # Route(r).name
        /\ handles[2].name = Route(r).name
        /\ slot[r].io = <<"Ok">>
        /\ Route(r).state = 0
        /\ lastWrite[0] = 1
        /\ lastWrite[1] = 0
        /\ value[handles[1].offset] = 1
        /\ value[handles[2].offset] = 0

\* C20: a handler takes the guard only from the state in which it has not yet
\* taken it and only when the guard is free, a task that is done no longer
\* holds it and has a reply of status 200, and the guard is free whenever no
\* task is in its guarded section; and, with the hardware calls returning and
\* a waiting task granted the free mutex in the end, every request a filter
\* has matched is answered in the end, with every task contending at once.
C20_Progress ==
    /\ [][/\ \A r \in Slots :
               /\ guard' = r /\ guard # r =>
                    /\ guard = 0
                    /\ slot[r].st = "arrived"
                    /\ slot'[r].st = "locked"
               /\ slot'[r].st = "done" => guard' # r
               /\ slot'[r].st = "done" /\ slot[r].st # "done" =>
                    slot'[r].resp.status = HttpOk
          /\ (\A r \in Slots : slot'[r].st # "locked") => guard' = 0]_vars
    /\ \A r \in Slots : (slot[r].st = "arrived") ~> (slot[r].st = "done")

C20_Witness ==
    \E r, s \in Slots :
        /\ r # s
        /\ slot[r].st = "arrived"
        /\ guard = s
        /\ Handling(s, "name_set")
        /\ slot[s].k = 1
        /\ slot[s].io = <<"Ok">>
        /\ \A t \in Slots \ {s} : slot[t].st = "arrived"

====
